---- MODULE Spec2Model ----
(***************************************************************************)
(* Model of the storage substrate of libosmium:                            *)
(*   - osmium::detail::typed_mmap<T>  (include/osmium/detail/typed_mmap.hpp)*)
(*   - osmium::Tag / osmium::TagList  (include/osmium/osm/tag.hpp)          *)
(*   - osmium::area::ProblemReporterOGR                                    *)
(*                         (include/osmium/area/problem_reporter_ogr.hpp)  *)
(*                                                                         *)
(* typed_mmap is modelled over a machine whose size_t has SizeBits bits    *)
(* (the arithmetic of the code is kept, only the width is scaled down) and *)
(* whose off_t is the signed type of the same width.  The operating system *)
(* is the environment: every system call may fail, and the actions draw    *)
(* its outcome with \E.                                                     *)
(***************************************************************************)
EXTENDS Integers, Sequences, FiniteSets, TLC

VARIABLES
    sizeofT,    \* sizeof(T) of the instantiation typed_mmap<T>
    file_len,   \* byte length (st_size) of the file behind the descriptor
    maps,       \* the mapping the caller holds (len = 0: none)
    ret,        \* what the last typed_mmap call did and gave back
    hdr,        \* sizeof(TagList): the bytes of the sequence header
    phase,      \* tag list: "idle" | "building" | "built"
    body,       \* tag list: the bytes that follow the header (records, then padding)
    byte_size,  \* tag list: offset of the end boundary of the records
    tags,       \* tag list: the key/value pairs written, in write order
    offs,       \* tag list: the offset at which each pair was written
    it,         \* iterator: current position (offset from the TagList start), 0 = none
    visited,    \* iterator: the records visited since the last begin()
    runs,       \* iterator: the visit lists of the completed iterations
    look,       \* the last get_value_by_key call and its result
    m_object_type,  \* reporter: type of the object being assembled
    m_object_id,    \* reporter: id of the object being assembled
    m_nodes,        \* reporter: node count of the object being assembled
    m_layer_perror, \* reporter: the features of layer "perrors", in write order
    m_layer_lerror, \* reporter: the features of layer "lerrors", in write order
    m_layer_ways,   \* reporter: the features of layer "ways", in write order
    rep,            \* reporter: the last report call and how it ended
    history         \* reporter: every report call made, in call order

mvars == <<sizeofT, file_len, maps, ret>>
tvars == <<hdr, phase, body, byte_size, tags, offs, it, visited, runs, look>>
rvars == <<m_object_type, m_object_id, m_nodes, m_layer_perror, m_layer_lerror, m_layer_ways,
           rep, history>>
vars == <<sizeofT, file_len, maps, ret, hdr, phase, body, byte_size, tags, offs, it, visited, runs, look,
          m_object_type, m_object_id, m_nodes, m_layer_perror, m_layer_lerror, m_layer_ways,
          rep, history>>

(***************************************************************************)
(* Bounds of the model.                                                    *)
(***************************************************************************)
SizeBits == 4       \* width of size_t and off_t in the model

SizeMod == 2 ^ SizeBits             \* size_t is 0 .. SizeMod - 1
OffMax == (SizeMod \div 2) - 1      \* largest off_t
SizeT == 0 .. (SizeMod - 1)
ElemSizes == {1, 3, 4}              \* the sizeof(T) of the instantiations modelled
Addrs == {1, 2}                     \* addresses the kernel can hand out
MAP_FAILED == 0 - 1                 \* (void*) -1
NoValue == 0 - 2                    \* nothing returned (void, or an exception left the call)

(***************************************************************************)
(* Machine arithmetic.                                                     *)
(***************************************************************************)
\* sizeof(T) * size in size_t: the product modulo 2^width
Mul(a, b) == (a * b) % SizeMod

\* conversion of a size_t to off_t (the length parameter of ftruncate)
ToOff(n) == IF n > OffMax THEN n - SizeMod ELSE n

Min(a, b) == IF a < b THEN a ELSE b

(***************************************************************************)
(* The operating system.  The model follows one mapping through its life:  *)
(* maps.len = 0 says that nothing is mapped; the bytes 0 .. fill-1 of the   *)
(* mapping hold non-zero values the caller stored, the others are zero.    *)
(***************************************************************************)
NoMap == [addr |-> 0, len |-> 0, cnt |-> 0, fill |-> 0, kind |-> "none"]

\* the byte at offset off of mapping m; reading outside the mapping faults
Byte(m, off) == IF off >= m.len THEN "fault" ELSE IF off < m.fill THEN "set" ELSE "zero"

Call(name, len, r) == [name |-> name, len |-> len, ok |-> r.ok, errno |-> r.errno]
SysOk(v) == [ok |-> TRUE, errno |-> "none", val |-> v]
SysFail(e) == [ok |-> FALSE, errno |-> e, val |-> MAP_FAILED]

\* mmap(nullptr, len, ...): EINVAL for a zero length, ENOMEM at will, else an address
MmapOutcomes(len) ==
    IF len = 0 THEN {SysFail("EINVAL")}
    ELSE {SysFail("ENOMEM")} \cup {SysOk(a) : a \in Addrs}

\* mremap(old, old_len, new_len, MREMAP_MAYMOVE): in place or at another address
MremapOutcomes(old_len, new_len) ==
    IF new_len = 0 \/ old_len = 0 THEN {SysFail("EINVAL")}
    ELSE {SysFail("ENOMEM")} \cup {SysOk(a) : a \in Addrs}

\* munmap(addr, len)
MunmapOutcomes(len) ==
    IF len = 0 THEN {SysFail("EINVAL")} ELSE {SysFail("EINVAL"), SysOk(0)}

\* fstat(fd, &s): st_size, or an error
FstatOutcomes == {SysFail("EBADF"), SysFail("EIO"), SysOk(file_len)}

\* ftruncate(fd, length): a negative off_t is EINVAL
FtruncateOutcomes(len) ==
    IF ToOff(len) < 0 THEN {SysFail("EINVAL")}
    ELSE {SysFail("EIO"), SysOk(0)}

(***************************************************************************)
(* typed_mmap<T>: what each function gives back.                           *)
(***************************************************************************)
Ret(op, a1, c, calls) ==
    [op |-> op, a1 |-> a1, outcome |-> c.outcome, code |-> c.code,
     value |-> c.value, calls |-> calls]

Returned(v) == [outcome |-> "ok", code |-> "none", value |-> v]
Thrown(kind, errno) == [outcome |-> kind, code |-> errno, value |-> NoValue]

\* if (addr == MAP_FAILED) throw std::system_error(errno, ...); return addr;
unchecked(r) == Returned(r.val)
checked(r) ==
    IF r.val = MAP_FAILED THEN Thrown("system_error", r.errno) ELSE Returned(r.val)

\* if (::munmap(...) != 0) throw std::system_error(errno, ...);
unmap_unchecked(r) == Returned(NoValue)
unmap_checked(r) ==
    IF ~r.ok THEN Thrown("system_error", r.errno) ELSE Returned(NoValue)

\* file_size(fd), given what fstat did
file_size_truncating(st) ==
    IF ~st.ok THEN Thrown("system_error", st.errno)
    ELSE Returned(st.val \div sizeofT)
file_size(st) ==
    IF ~st.ok THEN Thrown("system_error", st.errno)
    ELSE IF st.val % sizeofT # 0 THEN Thrown("length_error", "none")
    ELSE Returned(st.val \div sizeofT)

(***************************************************************************)
(* typed_mmap<T>: the operations.                                          *)
(***************************************************************************)
\* static T* map(size_t size)
map(size) ==
    /\ maps.len = 0
    /\ LET len == Mul(sizeofT, size) IN
       \E r \in MmapOutcomes(len) :
          /\ maps' = IF r.ok
                     THEN [addr |-> r.val, len |-> len, cnt |-> size, fill |-> 0, kind |-> "anon"]
                     ELSE maps
          /\ ret' = Ret("map", size, checked(r), <<Call("mmap", len, r)>>)
    /\ UNCHANGED <<sizeofT, file_len>>
    /\ UNCHANGED tvars
    /\ UNCHANGED rvars

\* static T* map(size_t size, int fd, bool write = false)
map_file(size, write) ==
    /\ maps.len = 0
    /\ LET len == Mul(sizeofT, size) IN
       \E r \in MmapOutcomes(len) :
          /\ maps' = IF r.ok
                     THEN [addr |-> r.val, len |-> len, cnt |-> size, fill |-> 0,
                           kind |-> IF write THEN "file_rw" ELSE "file_ro"]
                     ELSE maps
          /\ ret' = Ret("map_file", size, checked(r), <<Call("mmap", len, r)>>)
    /\ UNCHANGED <<sizeofT, file_len>>
    /\ UNCHANGED tvars
    /\ UNCHANGED rvars

\* the caller stores a non-zero byte at the next offset of an anonymous mapping
store ==
    /\ maps.kind = "anon"
    /\ maps.fill < maps.len
    /\ maps' = [maps EXCEPT !.fill = @ + 1]
    /\ ret' = Ret("store", maps.fill, Returned(NoValue), <<>>)
    /\ UNCHANGED <<sizeofT, file_len>>
    /\ UNCHANGED tvars
    /\ UNCHANGED rvars

\* static T* remap(T* data, size_t old_size, size_t new_size)
remap(new_size) ==
    /\ maps.kind = "anon"
    /\ LET old_size == maps.cnt
           old_len == Mul(sizeofT, old_size)
           new_len == Mul(sizeofT, new_size)
       IN
       \E r \in MremapOutcomes(old_len, new_len) :
          /\ maps' = IF r.ok
                     THEN [addr |-> r.val, len |-> new_len, cnt |-> new_size,
                           fill |-> Min(maps.fill, new_len), kind |-> "anon"]
                     ELSE maps
          /\ ret' = Ret("remap", new_size, checked(r), <<Call("mremap", new_len, r)>>)
    /\ UNCHANGED <<sizeofT, file_len>>
    /\ UNCHANGED tvars
    /\ UNCHANGED rvars

\* static void unmap(T* data, size_t size)
unmap ==
    /\ maps.len > 0
    /\ LET len == Mul(sizeofT, maps.cnt) IN
       \E r \in MunmapOutcomes(len) :
          /\ maps' = IF r.ok THEN NoMap ELSE maps
          /\ ret' = Ret("unmap", maps.cnt, unmap_checked(r), <<Call("munmap", len, r)>>)
    /\ UNCHANGED <<sizeofT, file_len>>
    /\ UNCHANGED tvars
    /\ UNCHANGED rvars

\* static size_t file_size(int fd)
file_size_call ==
    /\ \E st \in FstatOutcomes :
          ret' = Ret("file_size", 0, file_size(st), <<Call("fstat", 0, st)>>)
    /\ UNCHANGED <<sizeofT, file_len, maps>>
    /\ UNCHANGED tvars
    /\ UNCHANGED rvars

\* static void grow_file(size_t new_size, int fd)
grow_file(new_size) ==
    /\ \E st \in FstatOutcomes :
          LET fs == file_size(st)
              c1 == <<Call("fstat", 0, st)>>
          IN
          IF fs.outcome # "ok"
          THEN /\ ret' = Ret("grow_file", new_size, Thrown(fs.outcome, fs.code), c1)
               /\ file_len' = file_len
          ELSE IF fs.value < new_size
          THEN LET len == Mul(sizeofT, new_size) IN
               \E tr \in FtruncateOutcomes(len) :
                  /\ file_len' = IF tr.ok THEN len ELSE file_len
                  /\ ret' = Ret("grow_file", new_size,
                                IF tr.ok THEN Returned(NoValue) ELSE Thrown("system_error", tr.errno),
                                Append(c1, Call("ftruncate", len, tr)))
          ELSE /\ ret' = Ret("grow_file", new_size, Returned(NoValue), c1)
               /\ file_len' = file_len
    /\ UNCHANGED <<sizeofT, maps>>
    /\ UNCHANGED tvars
    /\ UNCHANGED rvars

NoRet == Ret("none", 0, Returned(NoValue), <<>>)
NoLook == [called |-> FALSE, key |-> <<>>, found |-> FALSE, value |-> <<>>, fault |-> FALSE]

InitTagIdle ==
    /\ hdr = 0
    /\ phase = "idle"
    /\ body = <<>>
    /\ byte_size = 0
    /\ tags = <<>>
    /\ offs = <<>>
    /\ it = 0
    /\ visited = <<>>
    /\ runs = <<>>
    /\ look = NoLook

NoReport == [op |-> "none", outcome |-> "ok", caught |-> FALSE]

InitReportIdle ==
    /\ m_object_type = "undefined"
    /\ m_object_id = 0
    /\ m_nodes = 0
    /\ m_layer_perror = <<>>
    /\ m_layer_lerror = <<>>
    /\ m_layer_ways = <<>>
    /\ rep = NoReport
    /\ history = <<>>

\* typed_mmap<T> on a file of any length
InitFile ==
    /\ sizeofT \in ElemSizes
    /\ file_len \in 0 .. OffMax
    /\ maps = NoMap
    /\ ret = NoRet
    /\ InitTagIdle
    /\ InitReportIdle

NextFile ==
    \/ file_size_call
    \/ \E new_size \in SizeT : grow_file(new_size)

SpecFile == InitFile /\ [][NextFile]_vars

\* typed_mmap<T> on one mapping
InitMap ==
    /\ sizeofT \in ElemSizes
    /\ file_len = 0
    /\ maps = NoMap
    /\ ret = NoRet
    /\ InitTagIdle
    /\ InitReportIdle

NextMap ==
    \/ \E size \in SizeT : map(size)
    \/ \E size \in SizeT, write \in BOOLEAN : map_file(size, write)
    \/ store
    \/ \E new_size \in SizeT : remap(new_size)
    \/ unmap

SpecMap == InitMap /\ [][NextMap]_vars

\* every typed_mmap<T> operation, on one file and one mapping, with counts
\* that stand for: zero, small, a product that wraps, the largest size_t
Counts == {0, 1, 2, (SizeMod \div 4) + 1, SizeMod - 1}

NextMmap ==
    \/ \E c \in Counts : map(c)
    \/ \E c \in Counts, write \in BOOLEAN : map_file(c, write)
    \/ \E c \in Counts : remap(c)
    \/ unmap
    \/ file_size_call
    \/ \E c \in Counts : grow_file(c)

SpecMmap == InitFile /\ [][NextMmap]_vars

(***************************************************************************)
(* Claims about typed_mmap<T>.                                             *)
(***************************************************************************)
\* count * sizeof(T) as a mathematical product
MulExact(a, b) == a * b

\* C1: grow_file never shrinks the file: over any sequence of grow_file calls,
\* with any new_size and whether they succeed or fail, the byte length of the
\* file is non-decreasing.
C1_GrowFileNeverShrinks ==
    [][ret'.op = "grow_file" => file_len' >= file_len]_vars

\* C2: when grow_file does not fail, a file smaller than new_size elements is
\* extended to exactly new_size * sizeof(T) bytes, and a file that already
\* holds new_size elements keeps its length.
C2_GrowFileExact ==
    [][(ret'.op = "grow_file" /\ ret'.outcome = "ok")
        => IF file_len < MulExact(sizeofT, ret'.a1)
           THEN file_len' = MulExact(sizeofT, ret'.a1)
           ELSE file_len' = file_len]_vars

\* C3: file_size has three outcomes: fstat failed -> system_error; the byte
\* length is no multiple of sizeof(T) -> length_error and no count; otherwise
\* exactly byte_length / sizeof(T).
C3_FileSizeOutcomes ==
    ret.op = "file_size" =>
        LET st == ret.calls[1] IN
        /\ (~st.ok => ret.outcome = "system_error" /\ ret.value = NoValue)
        /\ (st.ok /\ file_len % sizeofT # 0
               => ret.outcome = "length_error" /\ ret.value = NoValue)
        /\ (st.ok /\ file_len % sizeofT = 0
               => ret.outcome = "ok" /\ ret.value >= 0 /\ ret.value * sizeofT = file_len)

C3_Witness ==
    /\ ret.op = "file_size"
    /\ ret.outcome = "length_error"
    /\ file_len > sizeofT

\* C7: after remap(data, old_size, new_size) succeeds, the bytes of the first
\* min(old_size, new_size) elements can be read at the returned address and
\* equal the bytes the region held before the call.
C7_RemapPreserves ==
    [][(ret'.op = "remap" /\ ret'.outcome = "ok")
        => \A off \in 0 .. (MulExact(sizeofT, Min(maps.cnt, ret'.a1)) - 1) :
              /\ Byte(maps', off) # "fault"
              /\ Byte(maps, off) # "fault" => Byte(maps', off) = Byte(maps, off)]_vars

\* C8: no retries, no silent recovery: in every operation each system call is
\* made at most once, and when a system call fails the operation ends with a
\* system_error carrying that call's errno and returns no region and no count.
C8_NoRetryNoRecovery ==
    /\ \A i, j \in 1 .. Len(ret.calls) : ret.calls[i].name = ret.calls[j].name => i = j
    /\ \A i \in 1 .. Len(ret.calls) :
          ~ret.calls[i].ok =>
             /\ i = Len(ret.calls)
             /\ ret.outcome = "system_error"
             /\ ret.code = ret.calls[i].errno
             /\ ret.value = NoValue
    /\ ret.outcome = "system_error" =>
          /\ ret.calls # <<>>
          /\ ~ret.calls[Len(ret.calls)].ok

C8_Witness ==
    /\ ret.op = "grow_file"
    /\ Len(ret.calls) = 2
    /\ ~ret.calls[2].ok
    /\ ret.outcome = "system_error"
    /\ maps.len > 0

\* C9: the byte length asked of the operating system by map and remap, and
\* the length of the region they give, is count * sizeof(T) as a mathematical
\* product, for every count.
C9_ExactRegionLength ==
    ret.op \in {"map", "map_file", "remap"} =>
        /\ ret.calls[1].len = MulExact(sizeofT, ret.a1)
        /\ ret.outcome = "ok" => maps.len = MulExact(sizeofT, ret.a1)

\* C12: growth preserves the file layout: a grow_file call made on a file
\* whose byte length is an exact multiple of sizeof(T) leaves, whether it
\* succeeds or fails, a byte length that is an exact multiple of sizeof(T), so
\* a file_size call that follows does not end in a length_error; and a
\* grow_file call that fails leaves the byte length unchanged.
C12_GrowthKeepsLayout ==
    [][ret'.op = "grow_file"
        => /\ file_len % sizeofT = 0 => file_len' % sizeofT = 0
           /\ ret'.outcome # "ok" => file_len' = file_len]_vars

(***************************************************************************)
(* osmium::Tag and osmium::TagList.                                        *)
(*                                                                         *)
(* A TagList is hdr header bytes followed by body: the records, one after  *)
(* the other, then the padding.  Positions are offsets from the start of   *)
(* the TagList; byte_size is the offset of the end boundary of the records *)
(* and hdr + Len(body) the length the list takes in its buffer.  A read    *)
(* outside the list is a Fault.                                            *)
(***************************************************************************)
MaxTags == 2        \* records written to a list
MaxRuns == 2        \* iterations made over a list

align_bytes == 8
HeaderSizes == {4, 8, 12}                       \* candidate sizeof(TagList)
Keys == {<<>>, <<1>>, <<1, 2>>}                 \* key strings, no null byte inside
Values == {<<>>, <<1>>, <<2, 1>>}               \* value strings, no null byte inside
PadBytes == {0, 1}                              \* what the padding may hold
Fault == 0 - 1

\* static_assert(sizeof(TagList) % osmium::memory::align_bytes == 0, ...)
static_assert_ignored(h) == TRUE
static_assert_TagList(h) == h % align_bytes = 0

\* round a length up to the alignment boundary
padded_length(n) == ((n + align_bytes - 1) \div align_bytes) * align_bytes

\* the encoded record: key, null byte, value, null byte
Encode(k, v) == k \o <<0>> \o v \o <<0>>

MemEnd == hdr + Len(body)
ByteAt(p) == IF p >= hdr /\ p < MemEnd THEN body[p - hdr + 1] ELSE Fault

\* std::strchr(ptr, 0): the first null byte at or after ptr
StrChr0(ptr) ==
    IF ptr = Fault \/ ptr < hdr THEN Fault
    ELSE LET nulls == {q \in ptr .. (MemEnd - 1) : ByteAt(q) = 0} IN
         IF nulls = {} THEN Fault
         ELSE CHOOSE q \in nulls : \A r \in nulls : q <= r

\* the C string that starts at ptr
CStr(ptr) ==
    LET e == StrChr0(ptr) IN
    IF e = Fault THEN <<Fault>> ELSE [i \in 1 .. (e - ptr) |-> ByteAt(ptr + i - 1)]

\* Tag::after_null: return std::strchr(ptr, 0) + 1;
after_null_at(ptr) == StrChr0(ptr)
after_null(ptr) == IF StrChr0(ptr) = Fault THEN Fault ELSE StrChr0(ptr) + 1

\* ItemHelper::data(): the address of the record itself
data(p) == p

\* Tag::next: return after_null(after_null(data()));
Tag_next_one(p) == after_null(data(p))
Tag_next(p) == after_null(after_null(data(p)))

\* Tag::key: return data();      Tag::value: return after_null(data());
Tag_key(p) == data(p)
Tag_value(p) == after_null(data(p))

\* the record an iterator at p refers to
Deref(p) == [key |-> CStr(Tag_key(p)), value |-> CStr(Tag_value(p))]

\* Collection::cbegin(), Collection::cend()
cbegin == hdr
cend == byte_size

\* the predicate of get_value_by_key: !strcmp(tag.key(), key)
KeyDiffers(p, k) == CStr(Tag_key(p)) # k
KeyMatches(p, k) == CStr(Tag_key(p)) = k

\* std::find_if(first, last, pred) over CollectionIterator; n bounds the walk
\* by the bytes there are (every step moves forward)
RECURSIVE FindIf(_, _, _, _)
FindIf(first, last, k, n) ==
    IF first = last THEN last
    ELSE IF first = Fault \/ n = 0 THEN Fault
    ELSE IF KeyMatches(first, k) THEN first
    ELSE FindIf(Tag_next(first), last, k, n - 1)

\* TagList::get_value_by_key
get_value_by_key(k) ==
    LET result == FindIf(cbegin, cend, k, Len(body) + 1) IN
    IF result = cend
    THEN [called |-> TRUE, key |-> k, found |-> FALSE, value |-> <<>>, fault |-> FALSE]
    ELSE IF result = Fault
    THEN [called |-> TRUE, key |-> k, found |-> FALSE, value |-> <<>>, fault |-> TRUE]
    ELSE [called |-> TRUE, key |-> k, found |-> TRUE, value |-> CStr(Tag_value(result)),
          fault |-> FALSE]

\* the producer appends one record at the write cursor
AddTag(k, v) ==
    /\ phase = "building"
    /\ Len(tags) < MaxTags
    /\ body' = body \o Encode(k, v)
    /\ byte_size' = byte_size + Len(Encode(k, v))
    /\ tags' = Append(tags, [key |-> k, value |-> v])
    /\ offs' = Append(offs, byte_size)
    /\ UNCHANGED <<hdr, phase, it, visited, runs, look>>
    /\ UNCHANGED mvars
    /\ UNCHANGED rvars

\* the producer closes the list: padding up to the alignment boundary
Commit(b) ==
    /\ phase = "building"
    /\ phase' = "built"
    /\ body' = body \o [i \in 1 .. (padded_length(byte_size) - byte_size) |-> b]
    /\ UNCHANGED <<hdr, byte_size, tags, offs, it, visited, runs, look>>
    /\ UNCHANGED mvars
    /\ UNCHANGED rvars

\* it = cbegin()
Begin ==
    /\ phase = "built"
    /\ it = 0
    /\ Len(runs) < MaxRuns
    /\ it' = cbegin
    /\ visited' = <<>>
    /\ UNCHANGED <<hdr, phase, body, byte_size, tags, offs, runs, look>>
    /\ UNCHANGED mvars
    /\ UNCHANGED rvars

\* it != cend(): visit *it, then ++it (m_data = m_data->next())
Incr ==
    /\ it # 0
    /\ it # Fault
    /\ it # cend
    /\ visited' = Append(visited, Deref(it))
    /\ it' = Tag_next(it)
    /\ UNCHANGED <<hdr, phase, body, byte_size, tags, offs, runs, look>>
    /\ UNCHANGED mvars
    /\ UNCHANGED rvars

\* it == cend(): the iteration is over
Finish ==
    /\ it # 0
    /\ it = cend
    /\ runs' = Append(runs, visited)
    /\ it' = 0
    /\ visited' = <<>>
    /\ UNCHANGED <<hdr, phase, body, byte_size, tags, offs, look>>
    /\ UNCHANGED mvars
    /\ UNCHANGED rvars

Lookup(k) ==
    /\ phase = "built"
    /\ look' = get_value_by_key(k)
    /\ UNCHANGED <<hdr, phase, body, byte_size, tags, offs, it, visited, runs>>
    /\ UNCHANGED mvars
    /\ UNCHANGED rvars

InitTag ==
    /\ hdr \in {h \in HeaderSizes : static_assert_TagList(h)}
    /\ phase = "building"
    /\ body = <<>>
    /\ byte_size = hdr
    /\ tags = <<>>
    /\ offs = <<>>
    /\ it = 0
    /\ visited = <<>>
    /\ runs = <<>>
    /\ look = NoLook
    /\ sizeofT = 1
    /\ file_len = 0
    /\ maps = NoMap
    /\ ret = NoRet
    /\ InitReportIdle

NextTag ==
    \/ \E k \in Keys, v \in Values : AddTag(k, v)
    \/ \E b \in PadBytes : Commit(b)
    \/ Begin
    \/ Incr
    \/ Finish
    \/ \E k \in Keys \cup {<<2, 2>>} : Lookup(k)

SpecTag == InitTag /\ [][NextTag]_vars

(***************************************************************************)
(* Claims about Tag and TagList.                                           *)
(***************************************************************************)
RecordSize(t) == Len(t.key) + 1 + Len(t.value) + 1
Padding == MemEnd - byte_size
FirstMatch(k) ==
    LET m == {i \in 1 .. Len(tags) : tags[i].key = k} IN
    IF m = {} THEN 0 ELSE CHOOSE i \in m : \A j \in m : i <= j

\* C4: an iteration over a list of k records visits them in write order, each
\* next start being the current start plus the size of the current record,
\* and ends after exactly k steps at the end boundary, with or without
\* padding after the last record, and the same way each time it is restarted.
C4_IterationVisitsAll ==
    phase = "built" =>
        /\ it # Fault
        /\ it # 0 =>
              /\ Len(visited) <= Len(tags)
              /\ visited = SubSeq(tags, 1, Len(visited))
              /\ it = IF Len(visited) = Len(tags) THEN cend ELSE offs[Len(visited) + 1]
              /\ Len(visited) > 0 =>
                    it = offs[Len(visited)] + RecordSize(visited[Len(visited)])
        /\ \A i \in 1 .. Len(runs) : runs[i] = tags

C4_Witness ==
    /\ phase = "built"
    /\ Padding > 0
    /\ Len(tags) = 2
    /\ Len(runs) = 2
    /\ runs[2] = tags

\* C5: get_value_by_key gives the value of the first record, in iteration
\* order, whose key equals the requested key, also when several records have
\* that key, and null when the list is empty or no key matches.
C5_LookupFirstMatch ==
    look.called =>
        /\ ~look.fault
        /\ IF FirstMatch(look.key) = 0
           THEN ~look.found
           ELSE look.found /\ look.value = tags[FirstMatch(look.key)].value

C5_Witness ==
    /\ look.called
    /\ Len(tags) = 2
    /\ tags[1].key = look.key
    /\ tags[2].key = look.key
    /\ tags[1].value # tags[2].value
    /\ look.found
    /\ look.value = tags[1].value

\* C6: a key and a value without null bytes, written as key, null, value,
\* null, are read back by key() and value() exactly, and next() is
\* len(key) + 1 + len(value) + 1 bytes after the start of the record.
C6_RoundTrip ==
    \A i \in 1 .. Len(tags) :
        /\ CStr(Tag_key(offs[i])) = tags[i].key
        /\ CStr(Tag_value(offs[i])) = tags[i].value
        /\ Tag_next(offs[i]) - offs[i] = Len(tags[i].key) + 1 + Len(tags[i].value) + 1

C6_Witness ==
    /\ Len(tags) = 2
    /\ tags[1].key = <<>>
    /\ tags[1].value = <<2, 1>>
    /\ tags[2].key = <<1, 2>>
    /\ tags[2].value = <<>>
    /\ phase = "built"

\* C10: the length a constructed list takes is a multiple of the alignment
\* boundary, the padding coming after the last record and only when the
\* records do not end on the boundary, and the size of the header is a
\* multiple of the boundary.
C10_Alignment ==
    /\ hdr % align_bytes = 0
    /\ phase = "built" =>
          /\ MemEnd % align_bytes = 0
          /\ Padding \in 0 .. (align_bytes - 1)
          /\ (byte_size % align_bytes = 0) => Padding = 0
          /\ \A i \in 1 .. Len(tags) : offs[i] + RecordSize(tags[i]) <= byte_size

C10_Witness ==
    /\ phase = "built"
    /\ Len(tags) = 2
    /\ Padding > 0

(***************************************************************************)
(* osmium::area::ProblemReporterOGR.                                       *)
(*                                                                         *)
(* A layer is the sequence of the features added to it.  A feature is a    *)
(* record of its geometry and its fields.  The geometry factory and the    *)
(* base class ProblemReporter lie outside problem_reporter_ogr.hpp: the    *)
(* factory gives the line of a way or fails with geometry_error, the base  *)
(* class keeps the object being assembled.                                 *)
(***************************************************************************)
MaxReports == 2     \* report calls made on one reporter
Int32Bits == 3      \* width of int32_t in the model

Int32Mod == 2 ^ Int32Bits

\* int32_t(x): an id (a wider signed integer) converted to int32_t
int32_t(x) == ((x + (Int32Mod \div 2)) % Int32Mod) - (Int32Mod \div 2)

\* double(x) and the int given to set_field: the value with the type written
double(x) == <<"double", x>>
int(x) == <<"int", x>>

item_type_to_char(t) ==
    CASE t = "node" -> "n"
      [] t = "way" -> "w"
      [] t = "relation" -> "r"
      [] OTHER -> "X"

\* inputs of the report calls
Loc1 == <<1, 1>>
Loc2 == <<2, 1>>
Loc3 == <<2, 2>>
NodeRef1 == [ref |-> 1, location |-> Loc1]
NodeRef2 == [ref |-> 2, location |-> Loc2]
WideId == Int32Mod + 1                      \* an id that does not fit int32_t
Way(id, nodes) == [id |-> id, nodes |-> nodes]
Ways == {Way(1, <<>>), Way(1, <<NodeRef1>>), Way(WideId, <<NodeRef2, NodeRef1>>)}
NullWay == Way(0, <<>>)
Objects == {<<"way", 1, 2>>, <<"relation", WideId, 3>>}     \* type, id, node count

\* OGRFactory::create_point(location)
create_point(location) == <<"point", location>>

\* OGRFactory::create_linestring(way): the line through the way's nodes, or
\* geometry_error when the line cannot be built
NodeLocation(way, i) == way.nodes[i].location
create_linestring(way) ==
    {[ok |-> TRUE, geom |-> <<"linestring", [i \in 1 .. Len(way.nodes) |-> NodeLocation(way, i)]>>],
     [ok |-> FALSE, geom |-> <<"geometry_error">>]}
NoGeom == [ok |-> TRUE, geom |-> <<>>]

\* what a call adds to the three layers, and how it ends
Result(p, l, w) == [perror |-> p, lerror |-> l, ways |-> w, outcome |-> "ok", caught |-> FALSE]
Nothing == Result(<<>>, <<>>, <<>>)
throw(e) == [Nothing EXCEPT !.outcome = e]
Then(a, b) ==
    IF a.outcome # "ok" THEN a
    ELSE [b EXCEPT !.perror = a.perror \o b.perror,
                   !.lerror = a.lerror \o b.lerror,
                   !.ways = a.ways \o b.ways]

\* catch (const osmium::geometry_error&) { }
catch_nothing(r) == r
catch_geometry_error(r) ==
    IF r.outcome = "geometry_error"
    THEN [r EXCEPT !.outcome = "ok", !.caught = TRUE]
    ELSE r

\* the object being assembled, as the reporter holds it
Object == [type |-> m_object_type, id |-> m_object_id, nodes |-> m_nodes]

set_object(obj) ==
    [obj_type |-> item_type_to_char(obj.type),
     obj_id |-> int(int32_t(obj.id)),
     nodes |-> int(int32_t(obj.nodes))]

write_point(obj, problem_type, id1, id2, location) ==
    Result(<<[geom |-> create_point(location)] @@ set_object(obj)
               @@ [id1 |-> double(id1), id2 |-> double(id2), problem |-> problem_type]>>,
           <<>>, <<>>)

write_line(obj, problem_type, id1, id2, loc1, loc2) ==
    Result(<<>>,
           <<[geom |-> <<"linestring", <<loc1, loc2>>>>] @@ set_object(obj)
               @@ [id1 |-> double(id1), id2 |-> double(id2), problem |-> problem_type]>>,
           <<>>)

report_duplicate_node(obj, node_id1, node_id2, location) ==
    write_point(obj, "duplicate_node", node_id1, node_id2, location)

report_touching_ring(obj, node_id, location) ==
    write_point(obj, "touching_ring", node_id, 0, location)

report_intersection(obj, way1_id, way1_seg_start, way1_seg_end, way2_id, way2_seg_start, way2_seg_end, intersection) ==
    Then(write_point(obj, "intersection", way1_id, way2_id, intersection),
    Then(write_line(obj, "intersection", way1_id, way2_id, way1_seg_start, way1_seg_end),
         write_line(obj, "intersection", way2_id, way1_id, way2_seg_start, way2_seg_end)))

report_duplicate_segment(obj, nr1, nr2) ==
    write_line(obj, "duplicate_segment", nr1.ref, nr2.ref, nr1.location, nr2.location)

report_overlapping_segment(obj, nr1, nr2) ==
    write_line(obj, "overlapping_segment", nr1.ref, nr2.ref, nr1.location, nr2.location)

report_ring_not_closed(obj, nr, way) ==
    write_point(obj, "ring_not_closed", nr.ref, IF way # NullWay THEN way.id ELSE 0, nr.location)

report_role_should_be_outer(obj, way_id, seg_start, seg_end) ==
    write_line(obj, "role_should_be_outer", way_id, 0, seg_start, seg_end)

report_role_should_be_inner(obj, way_id, seg_start, seg_end) ==
    write_line(obj, "role_should_be_inner", way_id, 0, seg_start, seg_end)

\* the try block of the three reports that write a way to layer "lerrors":
\* g is what create_linestring(way) gave
lerror_feature(obj, way, g, problem) ==
    IF ~g.ok THEN throw("geometry_error")
    ELSE Result(<<>>,
                <<[geom |-> g.geom] @@ set_object(obj)
                    @@ [id1 |-> int(int32_t(way.id)), id2 |-> int(0), problem |-> problem]>>,
                <<>>)

report_way_in_multiple_rings(obj, way, g) ==
    IF Len(way.nodes) < 2 THEN Nothing
    ELSE catch_geometry_error(lerror_feature(obj, way, g, "way_in_multiple_rings"))

report_inner_with_same_tags(obj, way, g) ==
    IF Len(way.nodes) < 2 THEN Nothing
    ELSE catch_geometry_error(lerror_feature(obj, way, g, "inner_with_same_tags"))

report_duplicate_way(obj, way, g) ==
    IF Len(way.nodes) < 2 THEN Nothing
    ELSE catch_geometry_error(lerror_feature(obj, way, g, "duplicate_way"))

\* the try block of report_way
ways_feature(obj, way, g) ==
    IF ~g.ok THEN throw("geometry_error")
    ELSE Result(<<>>, <<>>,
                <<[geom |-> g.geom] @@ set_object(obj) @@ [way_id |-> int(int32_t(way.id))]>>)

report_way(obj, way, g) ==
    IF way.nodes = <<>> THEN Nothing
    ELSE IF Len(way.nodes) = 1
    THEN write_point(obj, "single_node_in_way", way.id, way.nodes[1].ref, way.nodes[1].location)
    ELSE catch_geometry_error(ways_feature(obj, way, g))

\* the reports that build the line of a way
WayReports == {"report_way_in_multiple_rings", "report_inner_with_same_tags",
               "report_duplicate_way", "report_way"}

\* one report call as the reporter's history keeps it; a is the tuple of the
\* arguments that are no way
Entry(op, obj, a, way, g) == [op |-> op, obj |-> obj, a |-> a, way |-> way, g |-> g]

Apply(e) ==
    CASE e.op = "report_duplicate_node" -> report_duplicate_node(e.obj, e.a[1], e.a[2], e.a[3])
      [] e.op = "report_touching_ring" -> report_touching_ring(e.obj, e.a[1], e.a[2])
      [] e.op = "report_intersection" ->
            report_intersection(e.obj, e.a[1], e.a[2], e.a[3], e.a[4], e.a[5], e.a[6], e.a[7])
      [] e.op = "report_duplicate_segment" -> report_duplicate_segment(e.obj, e.a[1], e.a[2])
      [] e.op = "report_overlapping_segment" -> report_overlapping_segment(e.obj, e.a[1], e.a[2])
      [] e.op = "report_ring_not_closed" -> report_ring_not_closed(e.obj, e.a[1], e.way)
      [] e.op = "report_role_should_be_outer" -> report_role_should_be_outer(e.obj, e.a[1], e.a[2], e.a[3])
      [] e.op = "report_role_should_be_inner" -> report_role_should_be_inner(e.obj, e.a[1], e.a[2], e.a[3])
      [] e.op = "report_way_in_multiple_rings" -> report_way_in_multiple_rings(e.obj, e.way, e.g)
      [] e.op = "report_inner_with_same_tags" -> report_inner_with_same_tags(e.obj, e.way, e.g)
      [] e.op = "report_duplicate_way" -> report_duplicate_way(e.obj, e.way, e.g)
      [] e.op = "report_way" -> report_way(e.obj, e.way, e.g)

\* the call e made on the reporter: its features are added to the layers
Report(e) ==
    /\ LET r == Apply(e) IN
       /\ m_layer_perror' = m_layer_perror \o r.perror
       /\ m_layer_lerror' = m_layer_lerror \o r.lerror
       /\ m_layer_ways' = m_layer_ways \o r.ways
       /\ rep' = [op |-> e.op, outcome |-> r.outcome, caught |-> r.caught]
       /\ history' = Append(history, e @@ [outcome |-> r.outcome])
    /\ UNCHANGED <<m_object_type, m_object_id, m_nodes>>
    /\ UNCHANGED mvars
    /\ UNCHANGED tvars

\* ProblemReporter::set_object(type, id) followed by set_nodes(nodes): the
\* assembler names the object it starts to work on
SetObject(type, id, nodes) ==
    /\ m_object_type' = type
    /\ m_object_id' = id
    /\ m_nodes' = nodes
    /\ UNCHANGED <<m_layer_perror, m_layer_lerror, m_layer_ways, rep, history>>
    /\ UNCHANGED mvars
    /\ UNCHANGED tvars

ReportDuplicateNode ==
    /\ Len(history) < MaxReports
    /\ Report(Entry("report_duplicate_node", Object, <<1, 2, Loc1>>, NullWay, NoGeom))

ReportTouchingRing ==
    /\ Len(history) < MaxReports
    /\ Report(Entry("report_touching_ring", Object, <<1, Loc1>>, NullWay, NoGeom))

ReportIntersection ==
    /\ Len(history) < MaxReports
    /\ Report(Entry("report_intersection", Object, <<1, Loc1, Loc2, WideId, Loc2, Loc3, Loc2>>,
                    NullWay, NoGeom))

ReportDuplicateSegment ==
    /\ Len(history) < MaxReports
    /\ Report(Entry("report_duplicate_segment", Object, <<NodeRef1, NodeRef2>>, NullWay, NoGeom))

ReportOverlappingSegment ==
    /\ Len(history) < MaxReports
    /\ Report(Entry("report_overlapping_segment", Object, <<NodeRef1, NodeRef2>>, NullWay, NoGeom))

ReportRingNotClosed(way) ==
    /\ Len(history) < MaxReports
    /\ Report(Entry("report_ring_not_closed", Object, <<NodeRef1>>, way, NoGeom))

ReportRoleShouldBeOuter ==
    /\ Len(history) < MaxReports
    /\ Report(Entry("report_role_should_be_outer", Object, <<1, Loc1, Loc2>>, NullWay, NoGeom))

ReportRoleShouldBeInner ==
    /\ Len(history) < MaxReports
    /\ Report(Entry("report_role_should_be_inner", Object, <<1, Loc1, Loc2>>, NullWay, NoGeom))

\* a report that builds the line of a way: the factory is asked for the line
\* only when the code reaches the try block
Geoms(way) ==
    IF Len(way.nodes) < 2 THEN {NoGeom} ELSE create_linestring(way)

ReportWayInMultipleRings(way) ==
    /\ Len(history) < MaxReports
    /\ \E g \in Geoms(way) :
          Report(Entry("report_way_in_multiple_rings", Object, <<>>, way, g))

ReportInnerWithSameTags(way) ==
    /\ Len(history) < MaxReports
    /\ \E g \in Geoms(way) :
          Report(Entry("report_inner_with_same_tags", Object, <<>>, way, g))

ReportDuplicateWay(way) ==
    /\ Len(history) < MaxReports
    /\ \E g \in Geoms(way) :
          Report(Entry("report_duplicate_way", Object, <<>>, way, g))

ReportWay(way) ==
    /\ Len(history) < MaxReports
    /\ \E g \in Geoms(way) :
          Report(Entry("report_way", Object, <<>>, way, g))

\* a reporter just constructed: three empty layers, no object set
InitReport ==
    /\ InitReportIdle
    /\ sizeofT = 1
    /\ file_len = 0
    /\ maps = NoMap
    /\ ret = NoRet
    /\ InitTagIdle

NextReport ==
    \/ \E o \in Objects : SetObject(o[1], o[2], o[3])
    \/ ReportDuplicateNode
    \/ ReportTouchingRing
    \/ ReportIntersection
    \/ ReportDuplicateSegment
    \/ ReportOverlappingSegment
    \/ \E way \in {NullWay, Way(WideId, <<NodeRef2, NodeRef1>>)} : ReportRingNotClosed(way)
    \/ ReportRoleShouldBeOuter
    \/ ReportRoleShouldBeInner
    \/ \E way \in Ways : ReportWayInMultipleRings(way)
    \/ \E way \in Ways : ReportInnerWithSameTags(way)
    \/ \E way \in Ways : ReportDuplicateWay(way)
    \/ \E way \in Ways : ReportWay(way)

SpecReport == InitReport /\ [][NextReport]_vars

(***************************************************************************)
(* Claims about ProblemReporterOGR.                                        *)
(***************************************************************************)
\* the call e raised a geometry error while building the line of its way
GeometryFailed(e) == e.op \in WayReports /\ ~e.g.ok
Succeeded(e) == ~GeometryFailed(e)

\* the layers after the calls of h, made one after the other on empty layers
RECURSIVE Replay(_)
Replay(h) ==
    IF h = <<>> THEN Nothing
    ELSE Then(Replay(SubSeq(h, 1, Len(h) - 1)), Apply(h[Len(h)]))

WithoutOutcome(e) == Entry(e.op, e.obj, e.a, e.way, e.g)
Calls(h) == [i \in 1 .. Len(h) |-> WithoutOutcome(h[i])]

\* C11: geometry failures do not abort reporting: a report_way_in_multiple_rings,
\* report_inner_with_same_tags, report_duplicate_way or report_way call in
\* which building the way's line raised a geometry error returns normally and
\* adds no feature to any layer; and over any sequence of report calls the
\* three layers hold exactly the features that the same calls without the
\* failing ones write.
C11_GeometryFailuresDoNotAbort ==
    /\ \A i \in 1 .. Len(history) : GeometryFailed(history[i]) => history[i].outcome = "ok"
    /\ LET r == Replay(SelectSeq(Calls(history), Succeeded)) IN
       /\ r.outcome = "ok"
       /\ m_layer_perror = r.perror
       /\ m_layer_lerror = r.lerror
       /\ m_layer_ways = r.ways

C11_Witness ==
    /\ Len(history) = 2
    /\ GeometryFailed(history[1])
    /\ history[2].op \in WayReports
    /\ history[2].g.ok
    /\ history[2].obj # history[1].obj
    /\ Len(m_layer_lerror) + Len(m_layer_ways) = 1
    /\ m_layer_perror = <<>>

====
